---- MODULE Spec2Model ----
(***************************************************************************)
(* Model of the sandbox-game client core:                                  *)
(*   - Game.start / Game.doMainLoop (src/src/Game.ts), the self-           *)
(*     rescheduling frame loop driven by window.requestAnimationFrame;     *)
(*   - TextureAtlas (src/unnamed/part_002), the shelf packer, the canvas   *)
(*     rasteriser and the WebGL upload.                                    *)
(* SpecLoop runs the frame loop, SpecAtlas runs atlas constructions.       *)
(***************************************************************************)
EXTENDS Integers, Sequences, FiniteSets, TLC

\* ------------------------------------------------------------------------
\* Bounds of the model
\* ------------------------------------------------------------------------

\* Number of ticks whose event record is kept in history.
MaxTicks == 4

\* Number of calls of Game.start() the host makes.
MaxStarts == 2

\* Longest image list handed to the TextureAtlas constructor.
MaxImages == 3

\* ------------------------------------------------------------------------
\* State
\* ------------------------------------------------------------------------

VARIABLES
    pc,          \* where control is: "host" or a statement of start()/main()
    starts,      \* calls of start() made so far
    initCalls,   \* calls of displayManager.initialize() made so far
    pending,     \* animation-frame callbacks registered and not yet fired
    ticksDone,   \* completed runs of main(), saturating at MaxTicks + 1
    cur,         \* record of the run of main() in progress (or the last one)
    history,     \* records of the first MaxTicks completed runs of main()
    escaped,     \* an exception left start() or main() towards the host
    apc,         \* position in the TextureAtlas constructor
    images,      \* constructor argument: list of [width, height]
    plan,        \* local `plan` of planPacking
    current_x,   \* local of planPacking
    current_row_height, \* local of planPacking
    idx,         \* number of images planPacking has consumed
    fPlan,       \* field this._plan
    fTexture,    \* field this._texture
    canvas,      \* the canvas packCanvas created
    drawn,       \* rectangles drawImage painted, in order
    glCreated,   \* calls of gl.createTexture
    glBound,     \* texture bound to TEXTURE_2D
    glUploaded,  \* texture object that received texImage2D
    error,       \* exception thrown by the constructor
    atlas,       \* what the caller of `new TextureAtlas` obtained
    first        \* what planPacking did in the previous construction from
                 \* the same images, NoFirst when there was none

loopVars == <<pc, starts, initCalls, pending, ticksDone, cur, history, escaped>>

atlasVars == <<apc, images, plan, current_x, current_row_height, idx, fPlan,
               fTexture, canvas, drawn, glCreated, glBound, glUploaded, error,
               atlas, first>>

vars == <<pc, starts, initCalls, pending, ticksDone, cur, history, escaped,
          apc, images, plan, current_x, current_row_height, idx, fPlan,
          fTexture, canvas, drawn, glCreated, glBound, glUploaded, error,
          atlas, first>>

\* ------------------------------------------------------------------------
\* Frame loop (Game.ts)
\* ------------------------------------------------------------------------

\* Outcome of a call into a collaborator: it returns or it throws.
Outcomes == {"ok", "throw"}

\* The record of a run of main() that has not done anything yet.
\* sync: the run is the direct call main() made by doMainLoop;
\* init: outcome of the initialize() call that preceded a sync run.
NewTick(sync, init) ==
    [events |-> <<>>, threw |-> "none", logged |-> 0, sync |-> sync,
     init |-> init]

\* A main() that forgets to register itself for the next frame.
NoReschedule(n) == n

\* A main() that registers itself twice for the next frame.
RescheduleTwice(n) == n + 2

\* window.requestAnimationFrame(main): one more callback is pending.
RequestAnimationFrame(n) == n + 1

\* A try block that renders before it updates the game state.
NextPhaseSwapped(phase) ==
    CASE phase = "input"  -> "render"
      [] phase = "render" -> "state"
      [] phase = "state"  -> "host"

\* The statement that follows a phase call which returned, in the try block.
NextPhase(phase) ==
    CASE phase = "input"  -> "state"
      [] phase = "state"  -> "render"
      [] phase = "render" -> "host"

\* A main() that catches around each phase call and carries on with the
\* next one.
OnThrowContinue(phase) ==
    CASE phase = "input"  -> "state"
      [] phase = "state"  -> "render"
      [] phase = "render" -> "host"

\* Where control goes when a phase call throws: the catch clause of main()
\* logs and main() returns.
OnThrow(phase) == "host"

\* A main() whose try block starts after the input processing.
InTryAfterInput(call) == call \in {"initialize", "state", "render"}

\* The calls made inside a try block: initialize() in start(), the three
\* phase calls in main().
InTry(call) == call \in {"initialize", "input", "state", "render"}

\* A start() that gives up when initialize() throws.
AbortOnInitFailure(outcome) == IF outcome = "throw" THEN "host" ELSE "raf"

\* Where start() continues after the try/catch around initialize().
AfterInitialize(outcome) == "raf"

\* Closing the record of a run of main().
Finish(rec) ==
    /\ ticksDone' = IF ticksDone > MaxTicks THEN ticksDone ELSE ticksDone + 1
    /\ history' = IF Len(history) < MaxTicks THEN Append(history, rec)
                  ELSE history

\* The host calls game.start().
Start ==
    /\ pc = "host"
    /\ starts < MaxStarts
    /\ starts' = starts + 1
    /\ pc' = "initialize"
    /\ UNCHANGED <<initCalls, pending, ticksDone, cur, history, escaped>>

\* start(): try { displayManager.initialize() } catch (e) { console.error },
\* then doMainLoop() calls main() directly.
Initialize ==
    /\ pc = "initialize"
    /\ \E o \in Outcomes :
          LET caught == o = "throw" /\ InTry("initialize")
              leaves == o = "throw" /\ ~InTry("initialize")
          IN  /\ initCalls' = initCalls + 1
              /\ pc' = IF leaves THEN "host" ELSE AfterInitialize(o)
              /\ cur' = [NewTick(TRUE, o) EXCEPT
                            !.logged = IF caught THEN 1 ELSE 0]
              /\ escaped' = (escaped \/ leaves)
    /\ UNCHANGED <<starts, pending, ticksDone, history>>

\* The host fires one pending animation-frame callback: main() is entered.
FireFrame ==
    /\ pc = "host"
    /\ pending > 0
    /\ pending' = pending - 1
    /\ pc' = "raf"
    /\ cur' = NewTick(FALSE, "none")
    /\ UNCHANGED <<starts, initCalls, ticksDone, history, escaped>>

\* main(): window.requestAnimationFrame(main).
Schedule ==
    /\ pc = "raf"
    /\ pending' = RequestAnimationFrame(pending)
    /\ cur' = [cur EXCEPT !.events = Append(@, "raf")]
    /\ pc' = "input"
    /\ UNCHANGED <<starts, initCalls, ticksDone, history, escaped>>

\* main(): one phase call of the try block, and the catch clause if it throws.
Phase(phase) ==
    /\ pc = phase
    /\ \E o \in Outcomes :
          LET called == [cur EXCEPT !.events = Append(@, phase)]
              caught == [called EXCEPT !.threw = phase,
                                       !.logged = IF InTry(phase) THEN @ + 1
                                                  ELSE @]
              rec    == IF o = "ok" THEN called ELSE caught
              to     == IF o = "ok" THEN NextPhase(phase)
                        ELSE IF InTry(phase) THEN OnThrow(phase) ELSE "host"
          IN  /\ cur' = rec
              /\ pc' = to
              /\ escaped' = (escaped \/ (o = "throw" /\ ~InTry(phase)))
              /\ IF to = "host" THEN Finish(rec)
                 ELSE UNCHANGED <<ticksDone, history>>
    /\ UNCHANGED <<starts, initCalls, pending>>

DoInputProcessing == Phase("input")

DoUpdateGameState == Phase("state")

DoRender == Phase("render")

LoopInit ==
    /\ pc = "host"
    /\ starts = 0
    /\ initCalls = 0
    /\ pending = 0
    /\ ticksDone = 0
    /\ cur = NewTick(FALSE, "none")
    /\ history = <<>>
    /\ escaped = FALSE

LoopNext ==
    \/ Start
    \/ Initialize
    \/ FireFrame
    \/ Schedule
    \/ DoInputProcessing
    \/ DoUpdateGameState
    \/ DoRender


\* ------------------------------------------------------------------------
\* Texture atlas (TextureAtlas)
\* ------------------------------------------------------------------------

\* Maximum allowable texture atlas dimension.
MAX_DIMENSION == 4096

\* Image widths and heights the constructions are run on: small, exactly
\* half the maximum, close to the maximum, the maximum, and above it.
Widths == {100, 2048, 4050, 4096, 5000}

Heights == {50, 2048, 4096}

Images == [width : Widths, height : Heights]

RECURSIVE SeqsUpTo(_, _)
SeqsUpTo(S, n) ==
    IF n = 0 THEN {<<>>}
    ELSE LET shorter == SeqsUpTo(S, n - 1)
         IN  shorter \cup {Append(s, e) : s \in {t \in shorter : Len(t) = n - 1}, e \in S}

ImageLists == SeqsUpTo(Images, MaxImages)

\* JavaScript values of a WebGLTexture-typed slot.
Undefined == "undefined"

NullTex == "null"

\* The field this._plan before the constructor assigns it.
NoPlan == [undefined |-> TRUE]

\* No canvas element has been created.
NoCanvas == [created |-> FALSE]

\* An initial plan that already spans the largest texture.
FullSizePlan ==
    [width |-> MAX_DIMENSION, height |-> MAX_DIMENSION, records |-> <<>>]

\* The initial value of `plan` in planPacking.
EmptyPlan == [width |-> 0, height |-> 0, records |-> <<>>]

\* A width test that reads the wrong dimension of the image.
WidthExceededByHeight(image) == image.height > MAX_DIMENSION

\* if (image.width > TextureAtlas.MAX_DIMENSION) throw
WidthExceeded(image) == image.width > MAX_DIMENSION

\* A wrap test that also wraps an image ending exactly at the maximum.
WrapsRowEarly(cx, image) == cx + image.width >= MAX_DIMENSION

\* if (current_x + image.width > TextureAtlas.MAX_DIMENSION): next row
WrapsRow(cx, image) == cx + image.width > MAX_DIMENSION

\* A row advance that forgets to add the height of the row it leaves.
AdvanceRowForgotten(height, rowHeight) == height

\* plan.height += current_row_height, when advancing to the next row
AdvanceRow(height, rowHeight) == height + rowHeight

\* A height test that also rejects an image ending exactly at the maximum.
HeightExceededStrict(height, image) == height + image.height >= MAX_DIMENSION

\* A height test that forgets the rows already committed.
HeightExceededAlone(height, image) == image.height > MAX_DIMENSION

\* if (plan.height + image.height > TextureAtlas.MAX_DIMENSION) throw
HeightExceeded(height, image) == height + image.height > MAX_DIMENSION

\* A width update that overwrites plan.width with the current row's extent.
WidenPlanAlways(width, cx) == cx

\* if (current_x > plan.width) plan.width = current_x
WidenPlan(width, cx) == IF cx > width THEN cx ELSE width

\* A row height that follows the last image instead of the tallest one.
RowHeightOfLast(rowHeight, image) == image.height

\* if (image.height > current_row_height) current_row_height = image.height
RowHeightAfter(rowHeight, image) ==
    IF image.height > rowHeight THEN image.height ELSE rowHeight

\* One iteration of the for loop of planPacking on the locals
\* st = [plan, current_x, current_row_height]; the result carries the error
\* thrown by the iteration, "none" when it completed.
PlaceImage(st, image) ==
    IF WidthExceeded(image)
    THEN [plan |-> st.plan, current_x |-> st.current_x,
          current_row_height |-> st.current_row_height, error |-> "width"]
    ELSE
      LET wrap == WrapsRow(st.current_x, image)
          x    == IF wrap THEN 0 ELSE st.current_x
          h    == IF wrap THEN AdvanceRow(st.plan.height, st.current_row_height)
                  ELSE st.plan.height
          rh   == IF wrap THEN 0 ELSE st.current_row_height
      IN IF HeightExceeded(h, image)
         THEN [plan |-> [st.plan EXCEPT !.height = h], current_x |-> x,
               current_row_height |-> rh, error |-> "height"]
         ELSE
           LET record == [top_left_x |-> x, top_left_y |-> h,
                          width |-> image.width, height |-> image.height]
               nx     == x + image.width
           IN [plan |-> [width   |-> WidenPlan(st.plan.width, nx),
                         height  |-> h,
                         records |-> Append(st.plan.records, record)],
               current_x |-> nx,
               current_row_height |-> RowHeightAfter(rh, image),
               error |-> "none"]

\* gl.createTexture() returns a new texture object, or null on failure.
NewTexture(bound) == IF bound = "texA" THEN "texB" ELSE "texA"

\* A value passed for a `WebGLTexture?` parameter: undefined converts to null.
ToNullable(v) == IF v = Undefined THEN NullTex ELSE v

\* createTexture: the value handed to gl.bindTexture(gl.TEXTURE_2D, ...),
\* given the local `texture` and the field this._texture.
BindArgument(texture, field) == field

\* packCanvas: if (context == null) throw
ContextMissing(context) == context = "null"

\* A createTexture that does not test the result of gl.createTexture().
TextureUnchecked(texture) == FALSE

\* createTexture: if (texture == null) throw
TextureMissing(texture) == texture = NullTex

\* No earlier construction to compare with.
NoFirst == [none |-> TRUE]

\* A planPacking whose plan and cursor live in members that outlive the call.
KeepLocals(st) == st

\* planPacking entry: `plan`, `current_x` and `current_row_height` are new
\* locals of every call, whatever an earlier call left behind (st).
EnterPlanPacking(st) ==
    [plan |-> EmptyPlan, current_x |-> 0, current_row_height |-> 0]

\* The caller evaluates `new TextureAtlas(gl, images)`.
Construct ==
    /\ apc = "idle"
    /\ \E imgs \in ImageLists : images' = imgs
    /\ apc' = "plan"
    /\ LET st == EnterPlanPacking([plan |-> plan, current_x |-> current_x,
                                   current_row_height |-> current_row_height])
       IN  /\ plan' = st.plan
           /\ current_x' = st.current_x
           /\ current_row_height' = st.current_row_height
    /\ UNCHANGED <<idx, fPlan, fTexture, canvas, drawn, glCreated, glBound,
                   glUploaded, error, atlas, first>>

\* The caller, whatever the first construction gave, evaluates
\* `new TextureAtlas(gl, images)` once more with the same images: a new
\* object, the same GL context.
ConstructAgain ==
    /\ apc \in {"done", "failed"}
    /\ first = NoFirst
    /\ first' = [error |-> IF error \in {"width", "height"} THEN error
                           ELSE "none",
                 plan  |-> fPlan]
    /\ apc' = "plan"
    /\ LET st == EnterPlanPacking([plan |-> plan, current_x |-> current_x,
                                   current_row_height |-> current_row_height])
       IN  /\ plan' = st.plan
           /\ current_x' = st.current_x
           /\ current_row_height' = st.current_row_height
    /\ idx' = 0
    /\ fPlan' = NoPlan
    /\ fTexture' = Undefined
    /\ canvas' = NoCanvas
    /\ drawn' = <<>>
    /\ glCreated' = 0
    /\ glUploaded' = "none"
    /\ error' = "none"
    /\ atlas' = "none"
    /\ UNCHANGED <<images, glBound>>

\* planPacking: one iteration of the loop.
PlanStep ==
    /\ apc = "plan"
    /\ idx < Len(images)
    /\ LET r == PlaceImage([plan |-> plan, current_x |-> current_x,
                            current_row_height |-> current_row_height],
                           images[idx + 1])
       IN  /\ plan' = r.plan
           /\ current_x' = r.current_x
           /\ current_row_height' = r.current_row_height
           /\ error' = r.error
           /\ idx' = IF r.error = "none" THEN idx + 1 ELSE idx
           /\ apc' = IF r.error = "none" THEN "plan" ELSE "failed"
    /\ UNCHANGED <<images, fPlan, fTexture, canvas, drawn, glCreated, glBound,
                   glUploaded, atlas, first>>

\* planPacking returns; the constructor assigns this._plan.
PlanReturn ==
    /\ apc = "plan"
    /\ idx = Len(images)
    /\ fPlan' = plan
    /\ apc' = "pack"
    /\ UNCHANGED <<images, plan, current_x, current_row_height, idx, fTexture,
                   canvas, drawn, glCreated, glBound, glUploaded, error, atlas,
                   first>>

\* packCanvas: create the canvas, get its 2D context, draw every image.
PackCanvas ==
    /\ apc = "pack"
    /\ canvas' = [width |-> fPlan.width, height |-> fPlan.height]
    /\ \E context \in {"2d", "null"} :
          IF ContextMissing(context)
          THEN /\ error' = "context"
               /\ apc' = "failed"
               /\ drawn' = drawn
          ELSE /\ error' = error
               /\ apc' = "texture"
               /\ drawn' = [i \in 1..Len(images) |->
                              [x |-> fPlan.records[i].top_left_x,
                               y |-> fPlan.records[i].top_left_y,
                               width |-> images[i].width,
                               height |-> images[i].height]]
    /\ UNCHANGED <<images, plan, current_x, current_row_height, idx, fPlan,
                   fTexture, glCreated, glBound, glUploaded, atlas, first>>

\* createTexture, and the constructor's assignment of this._texture.
CreateTexture ==
    /\ apc = "texture"
    /\ glCreated' = glCreated + 1
    /\ \E texture \in {NewTexture(glBound), NullTex} :
          IF TextureMissing(texture)
          THEN /\ error' = "texture"
               /\ apc' = "failed"
               /\ UNCHANGED <<glBound, glUploaded, fTexture, atlas>>
          ELSE /\ glBound' = ToNullable(BindArgument(texture, fTexture))
               /\ glUploaded' = glBound'
               /\ fTexture' = texture
               /\ atlas' = "object"
               /\ apc' = "done"
               /\ error' = error
    /\ UNCHANGED <<images, plan, current_x, current_row_height, idx, fPlan,
                   canvas, drawn, first>>

\* The caller drops the outcome; a later construction starts on a new object
\* with the same GL context.
Release ==
    /\ apc \in {"done", "failed"}
    /\ apc' = "idle"
    /\ images' = <<>>
    /\ plan' = EmptyPlan
    /\ current_x' = 0
    /\ current_row_height' = 0
    /\ idx' = 0
    /\ fPlan' = NoPlan
    /\ fTexture' = Undefined
    /\ canvas' = NoCanvas
    /\ drawn' = <<>>
    /\ glCreated' = 0
    /\ glUploaded' = "none"
    /\ error' = "none"
    /\ atlas' = "none"
    /\ first' = NoFirst
    /\ UNCHANGED glBound

AtlasInit ==
    /\ apc = "idle"
    /\ images = <<>>
    /\ plan = EmptyPlan
    /\ current_x = 0
    /\ current_row_height = 0
    /\ idx = 0
    /\ fPlan = NoPlan
    /\ fTexture = Undefined
    /\ canvas = NoCanvas
    /\ drawn = <<>>
    /\ glCreated = 0
    /\ glBound = NullTex
    /\ glUploaded = "none"
    /\ error = "none"
    /\ atlas = "none"
    /\ first = NoFirst

AtlasNext ==
    \/ Construct
    \/ ConstructAgain
    \/ PlanStep
    \/ PlanReturn
    \/ PackCanvas
    \/ CreateTexture
    \/ Release

\* ------------------------------------------------------------------------
\* Specifications
\* ------------------------------------------------------------------------

Init == LoopInit /\ AtlasInit

LoopStep == LoopNext /\ UNCHANGED atlasVars

AtlasStep == AtlasNext /\ UNCHANGED loopVars

\* The frame loop alone.
SpecLoop == Init /\ [][LoopStep]_vars

\* Atlas constructions alone.
SpecAtlas == Init /\ [][AtlasStep]_vars

\* A step of the code of start() or main(): once entered, the code runs on
\* (every collaborator call returns or throws).
RunStep ==
    \/ Initialize
    \/ Schedule
    \/ DoInputProcessing
    \/ DoUpdateGameState
    \/ DoRender

\* The frame loop under a host that eventually fires a pending
\* animation-frame callback.
SpecLoopFair ==
    /\ Init
    /\ [][LoopStep]_vars
    /\ WF_vars(FireFrame /\ UNCHANGED atlasVars)
    /\ WF_vars(RunStep /\ UNCHANGED atlasVars)

\* ------------------------------------------------------------------------
\* Properties of the frame loop
\* ------------------------------------------------------------------------

AllPhases == <<"input", "state", "render">>

\* The phase calls of a run of main(), in the order they were made.
PhaseCalls(rec) == SelectSeq(rec.events, LAMBDA e : e # "raf")

\* The calls made when `phase` is the last phase reached.
UpTo(phase) ==
    CASE phase = "input"  -> <<"input">>
      [] phase = "state"  -> <<"input", "state">>
      [] phase = "render" -> AllPhases

IsPrefix(s, t) == Len(s) <= Len(t) /\ \A i \in 1..Len(s) : s[i] = t[i]

Count(s, e) == Cardinality({i \in 1..Len(s) : s[i] = e})

\* Every run of main() the model holds a record of: the completed ones in
\* history and the one in progress.
Ticks == {history[n] : n \in 1..Len(history)} \cup {cur}

\* C1: when phase p throws in a tick, the phases after p are not invoked in
\* that tick, and the following tick starts again at doInputProcessing and,
\* when nothing throws in it, invokes input, state, render in order; in
\* particular when the state update of tick 3 throws, tick 3 has no render
\* and tick 4 runs all three phases.
C1_SelfHealing ==
    /\ \A rec \in Ticks :
          rec.threw # "none" => PhaseCalls(rec) = UpTo(rec.threw)
    /\ \A n \in 1..Len(history) :
          (n > 1 /\ history[n - 1].threw # "none") =>
              /\ PhaseCalls(history[n])[1] = "input"
              /\ history[n].threw = "none" => PhaseCalls(history[n]) = AllPhases
    /\ (Len(history) >= 4 /\ history[3].threw = "state") =>
          /\ Count(history[3].events, "render") = 0
          /\ history[4].threw = "none" => PhaseCalls(history[4]) = AllPhases

C1_Witness ==
    /\ Len(history) >= 4
    /\ history[3].threw = "state"
    /\ PhaseCalls(history[3]) = <<"input", "state">>
    /\ history[4].threw = "none"
    /\ PhaseCalls(history[4]) = AllPhases

\* C2: every tick requests the next tick exactly once, before any of its
\* phase calls, and after a single start() exactly one tick callback is
\* pending whenever control is back in the host, whatever threw.
C2_OneRequestPerTick ==
    /\ \A rec \in Ticks :
          rec.events # <<>> =>
              /\ rec.events[1] = "raf"
              /\ Count(rec.events, "raf") = 1
    /\ (pc = "host" /\ starts = 1) => pending = 1

C2_Witness ==
    /\ pc = "host"
    /\ starts = 1
    /\ pending = 1
    /\ Len(history) >= 3
    /\ history[1].threw = "input"
    /\ history[2].threw = "state"
    /\ history[3].threw = "render"

\* C3: within a tick each phase is invoked at most once and in the order
\* input, state, render; the state update is invoked only after the input
\* processing of that tick returned, the render only after the state update
\* returned; every tick invokes the input processing exactly once.
C3_PhaseOrder ==
    /\ \A rec \in Ticks :
          /\ IsPrefix(PhaseCalls(rec), AllPhases)
          /\ Count(rec.events, "state") > 0 => rec.threw # "input"
          /\ Count(rec.events, "render") > 0 => rec.threw \notin {"input", "state"}
    /\ \A n \in 1..Len(history) : Count(history[n].events, "input") = 1

C3_Witness ==
    /\ Len(history) >= 2
    /\ PhaseCalls(history[1]) = AllPhases
    /\ history[2].threw = "input"
    /\ PhaseCalls(history[2]) = <<"input">>

\* C4: start() invokes initialize() exactly once, before the first phase
\* call of the first tick; whether initialize() returns or throws, the first
\* tick runs inside start() (input, state, render unless a phase throws) and
\* a next tick is scheduled when start() returns.
C4_StartEntersLoop ==
    /\ initCalls = (IF pc = "initialize" THEN starts - 1 ELSE starts)
    /\ (pc = "initialize" /\ starts = 1) => (history = <<>> /\ cur.events = <<>>)
    /\ \A rec \in Ticks : rec.events # <<>> => initCalls >= 1
    /\ (cur.sync /\ cur.events # <<>>) => cur.init \in Outcomes
    /\ (pc = "host" /\ starts >= 1) =>
          /\ Len(history) >= 1
          /\ history[1].sync
          /\ history[1].init \in Outcomes
          /\ IsPrefix(<<"raf", "input">>, history[1].events)
          /\ history[1].threw = "none" => PhaseCalls(history[1]) = AllPhases
          /\ pending >= 1

C4_Witness ==
    /\ pc = "host"
    /\ starts = 1
    /\ initCalls = 1
    /\ Len(history) = 1
    /\ history[1].init = "throw"
    /\ history[1].events = <<"raf", "input", "state", "render">>
    /\ pending = 1

\* ------------------------------------------------------------------------
\* Properties of the texture atlas
\* ------------------------------------------------------------------------

Max(a, b) == IF a > b THEN a ELSE b

\* The shelf layout of a list of images, from the widths alone: the x origin
\* of image n, whether image n opens a row, and the row image n lies on.
RECURSIVE ShelfX(_, _)
ShelfX(imgs, n) ==
    IF n = 1 THEN 0
    ELSE LET px == ShelfX(imgs, n - 1) + imgs[n - 1].width
         IN  IF px + imgs[n].width > MAX_DIMENSION THEN 0 ELSE px

OpensRow(imgs, n) == n = 1 \/ ShelfX(imgs, n) = 0

RowOf(imgs, n) == Cardinality({k \in 1..n : OpensRow(imgs, k)})

RECURSIVE MaxHeightOfRow(_, _, _)
MaxHeightOfRow(imgs, r, n) ==
    IF n = 0 THEN 0
    ELSE Max(IF RowOf(imgs, n) = r THEN imgs[n].height ELSE 0,
             MaxHeightOfRow(imgs, r, n - 1))

RECURSIVE SumOfRows(_, _)
SumOfRows(imgs, r) ==
    IF r = 0 THEN 0
    ELSE MaxHeightOfRow(imgs, r, Len(imgs)) + SumOfRows(imgs, r - 1)

\* Sum of the per-row maximum heights of the shelf layout.
TotalPackedHeight(imgs) ==
    IF imgs = <<>> THEN 0 ELSE SumOfRows(imgs, RowOf(imgs, Len(imgs)))

WithinLimits(imgs) ==
    /\ \A i \in 1..Len(imgs) :
          /\ imgs[i].width \in 1..MAX_DIMENSION
          /\ imgs[i].height \in 1..MAX_DIMENSION
    /\ TotalPackedHeight(imgs) <= MAX_DIMENSION

\* Record i carries the dimensions of image i, for the first n images.
RecordsMatch(records, imgs, n) ==
    /\ Len(records) = n
    /\ \A i \in 1..n :
          /\ records[i].width = imgs[i].width
          /\ records[i].height = imgs[i].height

\* planPacking has returned a plan for the images of this construction.
PlanReturned == apc \in {"pack", "texture", "done"} \/ error \in {"context", "texture"}

\* C5: when every image is within 1..MAX_DIMENSION in both dimensions and
\* the total packed height of the shelf layout is at most MAX_DIMENSION,
\* planPacking succeeds and returns one record per image, in input order,
\* record i having the width and height of image i.
C5_PackingSucceeds ==
    (apc # "idle" /\ WithinLimits(images)) =>
        /\ error \notin {"width", "height"}
        /\ apc = "plan" => RecordsMatch(plan.records, images, idx)
        /\ apc # "plan" =>
              /\ PlanReturned
              /\ RecordsMatch(fPlan.records, images, Len(images))

C5_Witness ==
    /\ PlanReturned
    /\ Len(images) = 3
    /\ WithinLimits(images)
    /\ TotalPackedHeight(images) = MAX_DIMENSION
    /\ RowOf(images, 3) = 2
    /\ RecordsMatch(fPlan.records, images, 3)

Overlap(a, b) ==
    /\ a.top_left_x < b.top_left_x + b.width
    /\ b.top_left_x < a.top_left_x + a.width
    /\ a.top_left_y < b.top_left_y + b.height
    /\ b.top_left_y < a.top_left_y + a.height

NoOverlap(records) ==
    \A i, j \in 1..Len(records) : i # j => ~Overlap(records[i], records[j])

\* C6: no two distinct records of a plan overlap, in the plan planPacking
\* returns and in the partial record list after every iteration of its loop.
C6_NoOverlap ==
    /\ NoOverlap(plan.records)
    /\ fPlan # NoPlan => NoOverlap(fPlan.records)

C6_Witness ==
    /\ PlanReturned
    /\ Len(fPlan.records) = 3
    /\ fPlan.records[2].top_left_x > 0
    /\ fPlan.records[3].top_left_y > 0

\* C7: in a returned plan every record lies inside the plan and the plan
\* inside the maximum texture size, x + width <= plan.width <= MAX_DIMENSION
\* and y + height <= plan.height <= MAX_DIMENSION, so that every image
\* packCanvas draws lies within the plan.width x plan.height canvas.
C7_RecordsInsidePlan ==
    /\ fPlan # NoPlan =>
          /\ fPlan.width <= MAX_DIMENSION
          /\ fPlan.height <= MAX_DIMENSION
          /\ \A i \in 1..Len(fPlan.records) :
                /\ fPlan.records[i].top_left_x + fPlan.records[i].width <= fPlan.width
                /\ fPlan.records[i].top_left_y + fPlan.records[i].height <= fPlan.height
    /\ \A i \in 1..Len(drawn) :
          /\ drawn[i].x + drawn[i].width <= canvas.width
          /\ drawn[i].y + drawn[i].height <= canvas.height

HasWideImage(imgs) == \E i \in 1..Len(imgs) : imgs[i].width > MAX_DIMENSION

FirstWide(imgs) ==
    CHOOSE i \in 1..Len(imgs) :
        /\ imgs[i].width > MAX_DIMENSION
        /\ \A k \in 1..(i - 1) : imgs[k].width <= MAX_DIMENSION

\* C8: when some image is wider than MAX_DIMENSION, wherever it stands and
\* whatever the other images are, the construction fails with a
\* dimension-exceeded error and no plan is returned.
C8_WideImageFails ==
    (apc # "idle" /\ HasWideImage(images)) =>
        /\ apc \in {"plan", "failed"}
        /\ apc = "plan" => idx < FirstWide(images)
        /\ apc = "failed" => error \in {"width", "height"}
        /\ fPlan = NoPlan
        /\ atlas = "none"

C8_Witness ==
    /\ apc = "failed"
    /\ error = "width"
    /\ Len(images) = 3
    /\ idx = 2
    /\ images[3].width > MAX_DIMENSION

\* C9: construction is all-or-nothing and ordered plan, rasterise, upload:
\* when planPacking throws no canvas is created and gl.createTexture is not
\* called; when the 2D context is missing gl.createTexture is not called;
\* when gl.createTexture returns null the construction fails; every failure
\* reaches the caller, who then holds no atlas object.
C9_AllOrNothing ==
    /\ error \in {"width", "height"} => (canvas = NoCanvas /\ glCreated = 0)
    /\ error = "context" => (canvas # NoCanvas /\ glCreated = 0)
    /\ error = "texture" => glCreated = 1
    /\ error # "none" <=> apc = "failed"
    /\ error # "none" => atlas = "none"
    /\ canvas # NoCanvas => fPlan # NoPlan
    /\ glCreated > 0 => (canvas # NoCanvas /\ Len(drawn) = Len(images))
    /\ atlas = "object" <=> apc = "done"
    /\ atlas = "object" =>
          /\ fPlan # NoPlan
          /\ fTexture \notin {Undefined, NullTex}
          /\ glCreated = 1

C9_Witness ==
    /\ apc = "failed"
    /\ error = "texture"
    /\ glCreated = 1
    /\ Len(images) = 2
    /\ atlas = "none"

\* C10: after a successful construction the texture the `texture` getter
\* exposes is the texture object that was bound to TEXTURE_2D when
\* texImage2D uploaded the canvas.
C10_ExposedTextureUploaded ==
    atlas = "object" => glUploaded = fTexture

RECURSIVE MaxRight(_, _)
\* The largest x + width among the first n records, 0 when there is none.
MaxRight(records, n) ==
    IF n = 0 THEN 0
    ELSE Max(records[n].top_left_x + records[n].width, MaxRight(records, n - 1))

\* C11: plan.width is the maximum over the records of x + width, and 0
\* when there is no record, in the returned plan and in the partial plan
\* after each image is placed.
C11_WidthIsMaxRight ==
    /\ plan.width = MaxRight(plan.records, Len(plan.records))
    /\ fPlan # NoPlan => fPlan.width = MaxRight(fPlan.records, Len(fPlan.records))

C11_Witness ==
    /\ PlanReturned
    /\ Len(fPlan.records) = 3
    /\ fPlan.records[3].top_left_y > 0
    /\ fPlan.records[3].width < fPlan.width
    /\ fPlan.width = fPlan.records[2].top_left_x + fPlan.records[2].width

C13_TicksForever ==
    <>(starts >= 1) => []<><<DoInputProcessing /\ UNCHANGED atlasVars>>_vars

C13_Witness ==
    /\ pc = "input"
    /\ ticksDone > MaxTicks
    /\ Len(history) = MaxTicks
    /\ history[1].init = "throw"
    /\ \A n \in 1..Len(history) : history[n].threw # "none"

\* C14: packing an empty image list succeeds and yields the plan
\* {width: 0, height: 0, records: []}.
C14_EmptyInput ==
    (apc # "idle" /\ images = <<>>) =>
        /\ error \notin {"width", "height"}
        /\ apc = "plan" => plan = [width |-> 0, height |-> 0, records |-> <<>>]
        /\ apc # "plan" =>
              /\ PlanReturned
              /\ fPlan = [width |-> 0, height |-> 0, records |-> <<>>]

C14_Witness ==
    /\ images = <<>>
    /\ apc = "done"
    /\ fPlan = [width |-> 0, height |-> 0, records |-> <<>>]

\* The y origin the shelf layout gives image n: the sum of the maximum
\* heights of the rows above the row of image n.
ShelfY(imgs, n) == SumOfRows(imgs, RowOf(imgs, n) - 1)

\* The maximum height among the first n images that lie on the row of image n.
RowHeightAt(imgs, n) == MaxHeightOfRow(imgs, RowOf(imgs, n), n)

AllNarrow(imgs) == \A i \in 1..Len(imgs) : imgs[i].width <= MAX_DIMENSION

\* Image n, at the origin the shelf layout gives it, ends at or below the
\* maximum.
FitsBelow(imgs, n) == ShelfY(imgs, n) + imgs[n].height <= MAX_DIMENSION

\* C16: the height test is made after the row-wrap decision, against the
\* row origin the image will occupy: with all widths <= MAX_DIMENSION,
\* planPacking throws the height error at image i exactly when the y origin
\* of image i after any wrap plus its height exceeds MAX_DIMENSION, and
\* never rejects an image that ends at or below MAX_DIMENSION there.
C16_HeightCheckAfterWrap ==
    (apc # "idle" /\ AllNarrow(images)) =>
        /\ error # "width"
        /\ \A k \in 1..idx : FitsBelow(images, k)
        /\ error = "height" => (idx < Len(images) /\ ~FitsBelow(images, idx + 1))
        /\ PlanReturned => idx = Len(images)

C16_Witness ==
    /\ error = "height"
    /\ AllNarrow(images)
    /\ idx = 2
    /\ RowOf(images, 3) = 2
    /\ images[3].height < MAX_DIMENSION
    /\ ShelfY(images, 3) > 0

\* The maximum height among the records that lie at y.
RowMaxAt(records, y) ==
    LET hs == {records[k].height : k \in {j \in 1..Len(records) :
                                           records[j].top_left_y = y}}
    IN  CHOOSE h \in hs : \A g \in hs : g <= h

\* The records of the three-image example.
ExampleImages ==
    <<[width |-> 100, height |-> 50], [width |-> 100, height |-> 50],
      [width |-> 4050, height |-> 50]>>

\* C17: the first image is placed at (0,0); a later image is placed right
\* of its predecessor on the same row when it ends at or before
\* MAX_DIMENSION there, and otherwise at x = 0 on a new row, whose y is the
\* previous row's y plus the previous row's maximum image height; the images
\* (100,50), (100,50), (4050,50) get the origins (0,0), (100,0), (0,50) and
\* plan.width = 4050.
C17_ShelfPlacement ==
    /\ Len(plan.records) >= 1 =>
          (plan.records[1].top_left_x = 0 /\ plan.records[1].top_left_y = 0)
    /\ \A i \in 2..Len(plan.records) :
          LET p == plan.records[i - 1]
              r == plan.records[i]
              before == SubSeq(plan.records, 1, i - 1)
          IN  IF p.top_left_x + p.width + r.width <= MAX_DIMENSION
              THEN /\ r.top_left_x = p.top_left_x + p.width
                   /\ r.top_left_y = p.top_left_y
              ELSE /\ r.top_left_x = 0
                   /\ r.top_left_y = p.top_left_y + RowMaxAt(before, p.top_left_y)
    /\ (PlanReturned /\ images = ExampleImages) =>
          /\ fPlan.width = 4050
          /\ fPlan.records =
                <<[top_left_x |-> 0, top_left_y |-> 0, width |-> 100, height |-> 50],
                  [top_left_x |-> 100, top_left_y |-> 0, width |-> 100, height |-> 50],
                  [top_left_x |-> 0, top_left_y |-> 50, width |-> 4050, height |-> 50]>>

C17_Witness ==
    /\ PlanReturned
    /\ images = ExampleImages
    /\ fPlan.records[3].top_left_y = 50

\* The console.error calls a start() or a run of main() must have made:
\* one for a failed initialize(), one for a phase that threw.
FailuresIn(rec) ==
    (IF rec.init = "throw" THEN 1 ELSE 0) + (IF rec.threw # "none" THEN 1 ELSE 0)

\* C18: no exception of initialize(), doInputProcessing(),
\* doUpdateGameState() or doRender() leaves start() or a tick callback
\* towards the host: each is caught and logged, in every tick, the one
\* start() runs itself included.
C18_NothingEscapes ==
    /\ ~escaped
    /\ \A rec \in Ticks : rec.logged = FailuresIn(rec)

C18_Witness ==
    /\ pc = "host"
    /\ Len(history) >= 2
    /\ history[1].sync
    /\ history[1].init = "throw"
    /\ history[1].threw = "input"
    /\ history[1].logged = 2
    /\ ~history[2].sync
    /\ history[2].threw = "render"
    /\ ~escaped

\* C19: start() has no Idle/Running guard: after k >= 1 calls of start(),
\* initialize() has been invoked k times and exactly k tick callbacks are
\* pending whenever control is in the host, so that every refresh runs
\* input, state, render k times.
C19_OneChainPerStart ==
    (pc = "host" /\ starts >= 1) =>
        /\ initCalls = starts
        /\ pending = starts
        /\ Len(history) < MaxTicks =>
              Cardinality({n \in 1..Len(history) : history[n].sync}) = starts

C19_Witness ==
    /\ pc = "host"
    /\ starts = 2
    /\ initCalls = 2
    /\ pending = 2
    /\ Len(history) >= 4
    /\ history[1].sync
    /\ history[3].sync
    /\ ~history[4].sync

====
